---- MODULE Spec2Model ----
(***************************************************************************)
(* Model of the crop growth analysis (gee_growth.py) and of the daily      *)
(* worker that stores its results (daily_worker.py).                       *)
(*                                                                         *)
(* Units.  Capture times are integer ticks ("system:time_start");          *)
(* TicksPerDay ticks make one calendar day.  NDVI values are held in       *)
(* hundredths (0.2 is 20) and VH backscatter in tenths of a decibel        *)
(* (-11 dB is -110), so every threshold of the code is an integer.         *)
(* A percentage is the exact fraction num/den.                             *)
(***************************************************************************)
EXTENDS Integers, Sequences, FiniteSets, TLC

VARIABLES
    plot_data,          \* argument of run_growth_analysis_by_plot
    start_date,         \* argument: first tick of the window (inclusive)
    end_date,           \* argument: end of the window (exclusive)
    s2_catalog,         \* imagery backend: scenes of COPERNICUS/S2_SR over the plot
    s1_catalog,         \* imagery backend: scenes of COPERNICUS/S1_GRD over the plot
    ret,                \* <<>> before the call, <<r>> once it returned or raised
    pc,                 \* worker: "idle" between runs, "loop" inside run()
    plots,              \* worker: the fetched plots the loop has not reached yet,
                        \*   headed by the one it is processing
    analysis_results,   \* store: rows of table analysis_results
    satellite_images,   \* store: rows of table satellite_images
    runs,               \* worker: number of run() calls started
    event               \* worker: how the last loop iteration or run ended

growth_vars == <<plot_data, start_date, end_date, s2_catalog, s1_catalog, ret>>
worker_vars == <<pc, plots, analysis_results, satellite_images, runs, event>>
vars == <<plot_data, start_date, end_date, s2_catalog, s1_catalog, ret,
          pc, plots, analysis_results, satellite_images, runs, event>>

----------------------------------------------------------------------------
(* Bounds of the model *)

MaxTime == 3
MaxScenes == 2
NumPix == 2
TicksPerDay == 2
MaxPlots == 2
MaxRuns == 2

Pixels == 1..NumPix
Times == 1..MaxTime

----------------------------------------------------------------------------
(* Python values: None, a missing dict key, a plot dict *)

PyNone == "None"
Absent == "<absent>"

NoneValue ==
    [type |-> "NoneType", geometry |-> Absent, plot_name |-> Absent, properties |-> Absent]

Dict(g, n, p) ==
    [type |-> "dict", geometry |-> g, plot_name |-> n, properties |-> p]

NotDict ==
    [type |-> "str", geometry |-> Absent, plot_name |-> Absent, properties |-> Absent]

\* bool(x) of a plot value: None and the empty dict are falsy
Truthy(x) ==
    /\ x.type # "NoneType"
    /\ x.type = "dict" =>
          (x.geometry # Absent \/ x.plot_name # Absent \/ x.properties # Absent)

\* dict.get(key): None when the key is missing
Get(v) == IF v = Absent THEN PyNone ELSE v

----------------------------------------------------------------------------
(* gee_growth.py: candidate retrieval *)

FilterDate(coll, s, e) == {img \in coll : s <= img.time /\ img.time < e}

CloudFilter_le(img) == img.cloud <= 60

CloudFilter(img) == img.cloud < 60

S2Collection(cat, s, e) == {img \in FilterDate(cat, s, e) : CloudFilter(img)}

S1Filter(img) == img.instrumentMode = "IW" /\ "VH" \in img.pol

S1Collection(cat, s, e) == {img \in FilterDate(cat, s, e) : S1Filter(img)}

\* sort("system:time_start", False).first(): a scene of the latest capture time;
\* the order among scenes of equal time is the backend's.
First(coll) ==
    IF coll = {} THEN {<<>>}
    ELSE {<<img>> : img \in {i \in coll : \A j \in coll : j.time <= i.time}}

Millis(img) == img[1].time

\* Date.format("YYYY-MM-dd"): the calendar day of the tick
FormatDate(img) == img[1].time \div TicksPerDay

----------------------------------------------------------------------------
(* gee_growth.py: decision logic.  <<b>> is use_s2 = b, <<>> is the raise. *)

DecisionLogic_strict(s2, s1) ==
    IF s2 # <<>> /\ s1 # <<>> THEN <<Millis(s2) > Millis(s1)>>
    ELSE IF s2 # <<>> THEN <<TRUE>>
    ELSE IF s1 # <<>> THEN <<FALSE>>
    ELSE <<>>

DecisionLogic_default(s2, s1) ==
    IF s2 # <<>> /\ s1 # <<>> THEN <<Millis(s2) >= Millis(s1)>>
    ELSE IF s2 # <<>> THEN <<TRUE>>
    ELSE <<FALSE>>

DecisionLogic(s2, s1) ==
    IF s2 # <<>> /\ s1 # <<>> THEN <<Millis(s2) >= Millis(s1)>>
    ELSE IF s2 # <<>> THEN <<TRUE>>
    ELSE IF s1 # <<>> THEN <<FALSE>>
    ELSE <<>>

----------------------------------------------------------------------------
(* gee_growth.py: classification masks, one predicate per mask and value *)

S2WeakMask(v) == v >= 20 /\ v < 40

S2StressMask(v) == v >= 0 /\ v < 20

S2ModerateMask(v) == v >= 40 /\ v < 60

S2HealthyMask_gt(v) == v > 60

S2HealthyMask(v) == v >= 60

S1WeakMask(v) == v >= -110

S1StressMask(v) == v < -110 /\ v > -130

S1ModerateMask_ge(v) == v <= -130 /\ v >= -150

S1ModerateMask(v) == v <= -130 /\ v > -150

S1HealthyMask(v) == v <= -150

\* the four masks of the chosen image, each as the set of pixels it selects
Masks(use_s2, band) ==
    IF use_s2
    THEN [weak     |-> {p \in Pixels : S2WeakMask(band[p])},
          stress   |-> {p \in Pixels : S2StressMask(band[p])},
          moderate |-> {p \in Pixels : S2ModerateMask(band[p])},
          healthy  |-> {p \in Pixels : S2HealthyMask(band[p])}]
    ELSE [weak     |-> {p \in Pixels : S1WeakMask(band[p])},
          stress   |-> {p \in Pixels : S1StressMask(band[p])},
          moderate |-> {p \in Pixels : S1ModerateMask(band[p])},
          healthy  |-> {p \in Pixels : S1HealthyMask(band[p])}]

\* ee.Image(0).where(weak,1).where(stress,2).where(moderate,3).where(healthy,4)
CombinedClass(m) ==
    [p \in Pixels |->
        IF p \in m.healthy THEN 4
        ELSE IF p \in m.moderate THEN 3
        ELSE IF p \in m.stress THEN 2
        ELSE IF p \in m.weak THEN 1
        ELSE 0]

----------------------------------------------------------------------------
(* gee_growth.py: pixel counts and percentages *)

\* reduceRegion(count).get("constant").getInfo(): the backend's answer,
\* <<n>>, or <<>> (None) when it reports no value for an empty mask
PixelCount(mask, none_on_empty) ==
    IF mask = {} /\ none_on_empty THEN <<>> ELSE <<Cardinality(mask)>>

\* x or 0
OrZero(x) == IF x = <<>> THEN 0 ELSE x[1]

Total_no_stress(healthy, moderate, weak, stress) == healthy + moderate + weak

Total(healthy, moderate, weak, stress) == healthy + moderate + weak + stress

\* (count / total * 100) if total else 0
Percentage(count, total) ==
    IF total # 0 THEN [num |-> count * 100, den |-> total]
    ELSE [num |-> 0, den |-> 1]

----------------------------------------------------------------------------
(* gee_growth.py: run_growth_analysis_by_plot *)

\* the requests to the imagery backend (getInfo, getMapId), in program order
RequestsUpToCounts == <<"area", "s2_count", "s1_count">>

RequestsMillis == <<"s2_millis", "s1_millis">>

RequestsAnalysis ==
    <<"date_format", "getMapId", "count_healthy", "count_moderate",
      "count_weak", "count_stress", "geometry">>

\* What a call leaves behind: how it ended, the requests it sent, the value it
\* returned (<<>> when it raised), and the locals it had computed by then.
Returned(outcome, requests, result, s2_count, s1_count, latest_s2, latest_s1, use_s2, masks, counts) ==
    [outcome |-> outcome, requests |-> requests, result |-> result,
     s2_count |-> s2_count, s1_count |-> s1_count,
     latest_s2 |-> latest_s2, latest_s1 |-> latest_s1,
     use_s2 |-> use_s2, masks |-> masks, counts |-> counts]

RaisedAtEntry(outcome) ==
    Returned(outcome, <<>>, <<>>, <<>>, <<>>, <<>>, <<>>, <<>>, <<>>, <<>>)

\* first2, first1: the backend's first() of the two sorted collections;
\* none_on_empty: whether the backend reports None for the count of an empty mask;
\* fail_at: the request the backend fails (0: none).
run_growth_analysis_by_plot(pd, start, end, s2cat, s1cat, first2, first1, none_on_empty, fail_at) ==
    IF ~Truthy(pd) \/ pd.geometry = Absent THEN RaisedAtEntry("ValueError")
    ELSE IF pd.geometry = PyNone THEN RaisedAtEntry("AttributeError")
    ELSE
    LET s2_collection == S2Collection(s2cat, start, end)
        s1_collection == S1Collection(s1cat, start, end)
        both     == first2 # <<>> /\ first1 # <<>>
        use      == DecisionLogic(first2, first1)
        image    == IF use = <<>> THEN <<>> ELSE IF use[1] THEN first2 ELSE first1
        head     == RequestsUpToCounts \o (IF both THEN RequestsMillis ELSE <<>>)
        plan     == head \o (IF image = <<>> THEN <<>> ELSE RequestsAnalysis)
        fails    == fail_at \in 1..Len(plan)
        answered == IF fails THEN fail_at - 1 ELSE Len(plan)
        decided  == answered >= Len(head)
        m        == Masks(use[1], image[1].band)
        raw      == [healthy  |-> PixelCount(m.healthy, none_on_empty),
                     moderate |-> PixelCount(m.moderate, none_on_empty),
                     weak     |-> PixelCount(m.weak, none_on_empty),
                     stress   |-> PixelCount(m.stress, none_on_empty)]
        healthy  == OrZero(raw.healthy)
        moderate == OrZero(raw.moderate)
        weak     == OrZero(raw.weak)
        stress   == OrZero(raw.stress)
        total    == Total(healthy, moderate, weak, stress)
        props    == IF pd.properties = Absent THEN Absent ELSE pd.properties
        result   ==
            [analysis_date |-> FormatDate(image),
             sensor        |-> IF use[1] THEN "Sentinel-2" ELSE "Sentinel-1",
             tile_url      |-> CombinedClass(m),
             geometry      |-> pd.geometry,
             plot_name     |-> Get(props),
             data_source   |-> IF use[1] THEN "Sentinel-2 NDVI" ELSE "Sentinel-1 VH",
             total_pixel_count    |-> total,
             healthy_pixel_count  |-> healthy,
             moderate_pixel_count |-> moderate,
             weak_pixel_count     |-> weak,
             stress_pixel_count   |-> stress,
             healthy_pixel_percentage  |-> Percentage(healthy, total),
             moderate_pixel_percentage |-> Percentage(moderate, total),
             weak_pixel_percentage     |-> Percentage(weak, total),
             stress_pixel_percentage   |-> Percentage(stress, total),
             analysis_start_date |-> start,
             analysis_end_date   |-> end]
        outcome  ==
            IF fails THEN "EEException"
            ELSE IF use = <<>> THEN "Exception"
            ELSE IF image = <<>> THEN "AttributeError"
            ELSE "ok"
    IN  Returned(
            outcome,
            SubSeq(plan, 1, IF fails THEN fail_at ELSE Len(plan)),
            IF outcome = "ok" THEN <<result>> ELSE <<>>,
            IF answered >= 2 THEN <<Cardinality(s2_collection)>> ELSE <<>>,
            IF answered >= 3 THEN <<Cardinality(s1_collection)>> ELSE <<>>,
            IF answered >= 2 THEN first2 ELSE <<>>,
            IF answered >= 3 THEN first1 ELSE <<>>,
            IF decided THEN use ELSE <<>>,
            IF decided /\ image # <<>> THEN <<m>> ELSE <<>>,
            IF image # <<>> /\ answered >= Len(head) + 6 THEN <<raw>> ELSE <<>>)

----------------------------------------------------------------------------
(* Inputs of the analysis *)

Geometry == "polygon"

NdviVals == {-1, 0, 19, 20, 39, 40, 59, 60, 61}
VhVals == {-151, -150, -149, -131, -130, -129, -111, -110, -109}
CloudVals == {59, 60, 61}

PlainNdvi == [p \in Pixels |-> 61]
PlainVh == [p \in Pixels |-> -129]

S2Scene(t, c, band) == [time |-> t, cloud |-> c, band |-> band]

S1Scene(t, mode, pol, band) ==
    [time |-> t, instrumentMode |-> mode, pol |-> pol, band |-> band]

S2Scenes == {S2Scene(t, c, PlainNdvi) : t \in Times, c \in CloudVals}

S1Scenes ==
    {S1Scene(t, mo, po, PlainVh) :
        t \in Times, mo \in {"IW", "EW"}, po \in {{"VV", "VH"}, {"VV"}}}

RECURSIVE SubsetsUpTo(_, _)
SubsetsUpTo(S, n) ==
    IF n = 0 THEN {{}}
    ELSE LET smaller == SubsetsUpTo(S, n - 1)
         IN  smaller \cup {A \cup {x} : A \in smaller, x \in S}

Catalogs ==
    {c \in SubsetsUpTo(S2Scenes, MaxScenes) \X SubsetsUpTo(S1Scenes, MaxScenes) :
        Cardinality(c[1]) + Cardinality(c[2]) <= MaxScenes}

PlotDataInputs ==
    { NoneValue,
      Dict(Absent, Absent, Absent),
      Dict(Absent, "A", Absent),
      Dict(Absent, Absent, "A"),
      Dict(PyNone, "A", Absent),
      Dict(Geometry, Absent, Absent),
      Dict(Geometry, "A", Absent),
      Dict(Geometry, Absent, "A") }

AllRequests == RequestsUpToCounts \o RequestsMillis \o RequestsAnalysis

WorkerInit ==
    /\ pc = "idle"
    /\ plots = <<>>
    /\ analysis_results = {}
    /\ satellite_images = {}
    /\ runs = 0
    /\ event = "none"

\* three families of calls: every shape of plot_data against one scene; every
\* small catalog and both window ends with plain rasters; every raster of one scene
InitGrowth ==
    /\ WorkerInit
    /\ ret = <<>>
    /\ start_date = 1
    /\ \/ /\ plot_data \in PlotDataInputs
          /\ end_date = MaxTime + 1
          /\ s2_catalog = {S2Scene(1, 59, PlainNdvi)}
          /\ s1_catalog = {}
       \/ /\ plot_data = Dict(Geometry, Absent, "A")
          /\ end_date \in {MaxTime, MaxTime + 1}
          /\ \E c \in Catalogs : s2_catalog = c[1] /\ s1_catalog = c[2]
       \/ /\ plot_data = Dict(Geometry, Absent, "A")
          /\ end_date = MaxTime + 1
          /\ \/ /\ s2_catalog \in {{S2Scene(1, 59, b)} : b \in [Pixels -> NdviVals]}
                /\ s1_catalog = {}
             \/ /\ s2_catalog = {}
                /\ s1_catalog \in
                      {{S1Scene(1, "IW", {"VV", "VH"}, b)} : b \in [Pixels -> VhVals]}

GrowthCall ==
    /\ ret = <<>>
    /\ \E first2 \in First(S2Collection(s2_catalog, start_date, end_date)),
          first1 \in First(S1Collection(s1_catalog, start_date, end_date)),
          none_on_empty \in BOOLEAN,
          fail_at \in 0..Len(AllRequests) :
            ret' = <<run_growth_analysis_by_plot(
                        plot_data, start_date, end_date, s2_catalog, s1_catalog,
                        first2, first1, none_on_empty, fail_at)>>
    /\ UNCHANGED <<plot_data, start_date, end_date, s2_catalog, s1_catalog>>
    /\ UNCHANGED worker_vars

NextGrowth == GrowthCall

SpecGrowth == InitGrowth /\ [][NextGrowth]_vars

----------------------------------------------------------------------------
(* Properties of run_growth_analysis_by_plot, checked under SpecGrowth *)

Called == ret # <<>>

R == ret[1]

Range(q) == {q[i] : i \in DOMAIN q}

InWindow(img) == start_date <= img.time /\ img.time < end_date

\* the scenes that can become the optical and the radar candidate
Optical == S2Collection(s2_catalog, start_date, end_date)
Radar == S1Collection(s1_catalog, start_date, end_date)

LatestTime(coll) == CHOOSE t \in {i.time : i \in coll} : \A j \in coll : j.time <= t

\* C1: a returned result names "Sentinel-2" exactly when an optical candidate
\* exists and either no radar candidate exists or the optical capture time is
\* greater than or equal to the radar one; otherwise it names "Sentinel-1".
C1_SensorSelection ==
    (Called /\ R.result # <<>>) =>
        /\ R.result[1].sensor \in {"Sentinel-1", "Sentinel-2"}
        /\ Optical # {} \/ Radar # {}
        /\ R.result[1].sensor = "Sentinel-2" <=>
              /\ Optical # {}
              /\ Radar # {} => LatestTime(Optical) >= LatestTime(Radar)

C1_Witness_Tie ==
    /\ Called /\ R.result # <<>>
    /\ Optical # {} /\ Radar # {}
    /\ LatestTime(Optical) = LatestTime(Radar)
    /\ R.result[1].sensor = "Sentinel-2"

C1_Witness_Radar ==
    /\ Called /\ R.result # <<>>
    /\ Optical # {} /\ Radar # {}
    /\ LatestTime(Optical) < LatestTime(Radar)
    /\ R.result[1].sensor = "Sentinel-1"

\* C2: when neither collection holds a scene for the window, the call returns no
\* result and never requests the tile URL, and once both scene counts have been
\* answered it ends with the no-imagery exception.
C2_NoImagery ==
    (Called /\ Truthy(plot_data) /\ plot_data.geometry = Geometry
        /\ Optical = {} /\ Radar = {}) =>
        /\ R.result = <<>>
        /\ "getMapId" \notin Range(R.requests)
        /\ R.s1_count # <<>> =>
              R.outcome = "Exception" /\ R.requests = RequestsUpToCounts

C2_Witness ==
    /\ Called /\ Optical = {} /\ Radar = {}
    /\ s2_catalog # {} /\ s1_catalog # {}
    /\ R.s2_count = <<0>> /\ R.s1_count = <<0>>
    /\ R.outcome = "Exception"

\* the NDVI raster of the chosen optical image, the VH raster of the radar one
ChosenBand == IF R.use_s2[1] THEN R.latest_s2[1].band ELSE R.latest_s1[1].band

MasksOf(p) ==
    {k \in {"weak", "stress", "moderate", "healthy"} : p \in R.masks[1][k]}

\* C3: on the optical path every pixel of NDVI v is in the stress mask iff
\* 0 <= v < 0.2, weak iff 0.2 <= v < 0.4, moderate iff 0.4 <= v < 0.6, healthy
\* iff v >= 0.6; a pixel with v >= 0 is in exactly one mask, one with v < 0 in none.
C3_OpticalClasses ==
    (Called /\ R.masks # <<>> /\ R.use_s2 = <<TRUE>>) =>
        \A p \in Pixels :
            LET v == ChosenBand[p] IN
            /\ p \in R.masks[1].stress   <=> (0 <= v /\ v < 20)
            /\ p \in R.masks[1].weak     <=> (20 <= v /\ v < 40)
            /\ p \in R.masks[1].moderate <=> (40 <= v /\ v < 60)
            /\ p \in R.masks[1].healthy  <=> (60 <= v)
            /\ v >= 0 => Cardinality(MasksOf(p)) = 1
            /\ v < 0 => MasksOf(p) = {}

C3_Witness ==
    /\ Called /\ R.masks # <<>> /\ R.use_s2 = <<TRUE>>
    /\ \E p, q \in Pixels :
          /\ ChosenBand[p] = -1 /\ MasksOf(p) = {}
          /\ ChosenBand[q] = 60 /\ MasksOf(q) = {"healthy"}

\* C4: on the radar path every pixel of VH v is in the healthy mask iff v <= -15,
\* moderate iff -15 < v <= -13, stress iff -13 < v < -11, weak iff v >= -11, and
\* no pixel is in two masks.
C4_RadarClasses ==
    (Called /\ R.masks # <<>> /\ R.use_s2 = <<FALSE>>) =>
        \A p \in Pixels :
            LET v == ChosenBand[p] IN
            /\ p \in R.masks[1].healthy  <=> (v <= -150)
            /\ p \in R.masks[1].moderate <=> (-150 < v /\ v <= -130)
            /\ p \in R.masks[1].stress   <=> (-130 < v /\ v < -110)
            /\ p \in R.masks[1].weak     <=> (v >= -110)
            /\ Cardinality(MasksOf(p)) <= 1

C4_Witness ==
    /\ Called /\ R.masks # <<>> /\ R.use_s2 = <<FALSE>>
    /\ \E p, q \in Pixels :
          /\ ChosenBand[p] = -150 /\ MasksOf(p) = {"healthy"}
          /\ ChosenBand[q] = -130 /\ MasksOf(q) = {"moderate"}

PercentageNums(r) ==
    r.healthy_pixel_percentage.num + r.moderate_pixel_percentage.num
        + r.weak_pixel_percentage.num + r.stress_pixel_percentage.num

CountOf(x) == IF x = <<>> THEN 0 ELSE x[1]

\* C5: in every returned result total_pixel_count is the sum of the four class
\* counts, a count the backend did not report being 0; each percentage is its
\* count * 100 / total, so the four sum to 100 when the total is positive; and
\* all four are 0 when the total is 0.
C5_Percentages ==
    (Called /\ R.result # <<>>) =>
        LET r == R.result[1]
            pct == <<r.healthy_pixel_percentage, r.moderate_pixel_percentage,
                     r.weak_pixel_percentage, r.stress_pixel_percentage>>
            cnt == <<r.healthy_pixel_count, r.moderate_pixel_count,
                     r.weak_pixel_count, r.stress_pixel_count>>
        IN  /\ cnt = <<CountOf(R.counts[1].healthy), CountOf(R.counts[1].moderate),
                       CountOf(R.counts[1].weak), CountOf(R.counts[1].stress)>>
            /\ r.total_pixel_count = cnt[1] + cnt[2] + cnt[3] + cnt[4]
            /\ \A i \in 1..4 :
                  /\ pct[i].den > 0
                  /\ r.total_pixel_count > 0 =>
                        pct[i].num * r.total_pixel_count = cnt[i] * 100 * pct[i].den
                  /\ r.total_pixel_count = 0 => pct[i].num = 0
            /\ r.total_pixel_count > 0 =>
                  /\ \A i \in 1..4 : pct[i].den = r.total_pixel_count
                  /\ PercentageNums(r) = 100 * r.total_pixel_count

C5_Witness ==
    /\ Called /\ R.result # <<>>
    /\ R.result[1].total_pixel_count = NumPix
    /\ R.result[1].stress_pixel_count > 0
    /\ R.result[1].healthy_pixel_count > 0
    /\ R.counts[1].weak = <<>>

C5_Witness_ZeroTotal ==
    /\ Called /\ R.result # <<>>
    /\ R.result[1].total_pixel_count = 0
    /\ R.result[1].healthy_pixel_percentage.num = 0

GeometryIsAbsent(pd) ==
    \/ ~Truthy(pd)
    \/ pd.geometry = Absent
    \/ pd.geometry = PyNone

\* C8: a call whose plot_data is None or empty, has no "geometry" key, or has a
\* geometry of None raises the input error (ValueError) before any request to
\* the imagery backend and returns nothing.
C8_InputValidation ==
    (Called /\ GeometryIsAbsent(plot_data)) =>
        /\ R.outcome = "ValueError"
        /\ R.requests = <<>>
        /\ R.result = <<>>

\* the part of C8 the code keeps: no request and no result in all these cases
C8_NoRequestNoResult ==
    (Called /\ GeometryIsAbsent(plot_data)) =>
        /\ R.outcome \in {"ValueError", "AttributeError"}
        /\ R.requests = <<>>
        /\ R.result = <<>>

\* C9 as stated: the optical candidate is the latest scene of the window whose
\* cloud cover does not exceed 60, and is absent only when there is none.
C9_CloudAtMost60 ==
    (Called /\ R.s2_count # <<>>) =>
        LET elig == {img \in s2_catalog : InWindow(img) /\ img.cloud <= 60} IN
        /\ R.latest_s2 = <<>> <=> elig = {}
        /\ R.latest_s2 # <<>> =>
              /\ R.latest_s2[1] \in elig
              /\ \A j \in elig : j.time <= R.latest_s2[1].time

\* C9 amended: the optical candidate is the latest scene of the window whose
\* cloud cover is below 60 (a scene at exactly 60 is excluded), and is absent
\* only when there is none.
C9_CloudBelow60 ==
    (Called /\ R.s2_count # <<>>) =>
        LET elig == {img \in s2_catalog : InWindow(img) /\ img.cloud < 60} IN
        /\ R.s2_count = <<Cardinality(elig)>>
        /\ R.latest_s2 = <<>> <=> elig = {}
        /\ R.latest_s2 # <<>> =>
              /\ R.latest_s2[1] \in elig
              /\ \A j \in elig : j.time <= R.latest_s2[1].time

C9_Witness ==
    /\ Called /\ R.s2_count = <<1>>
    /\ \E a, b \in s2_catalog :
          /\ InWindow(a) /\ InWindow(b)
          /\ a.cloud = 60 /\ b.cloud = 59 /\ b.time < a.time
          /\ R.latest_s2 = <<b>>

----------------------------------------------------------------------------
(* daily_worker.py: the store and the plot registry *)

\* table "plots" of the store: plot "C" of the registry has no row
PlotsTable == {[id |-> 1, plot_name |-> "A"], [id |-> 2, plot_name |-> "B"]}

\* what the registry endpoint can list
PlotInputs ==
    { NotDict,
      Dict(Geometry, Absent, Absent),
      Dict(PyNone, "A", Absent),
      Dict(Geometry, "A", Absent),
      Dict(Geometry, "B", Absent),
      Dict(Geometry, "C", Absent) }

PlotLists == UNION {[1..n -> PlotInputs] : n \in 0..MaxPlots}

\* the plot passes the checks at the head of the loop body
ValidPlot(p) ==
    /\ p.type = "dict"
    /\ Get(p.plot_name) # PyNone
    /\ Get(p.geometry) # PyNone

\* table("plots").select("id").eq("plot_name", plot_name)
DbPlot(plot_name) == {r \in PlotsTable : r.plot_name = plot_name}

\* the states of the imagery backend a worker call can meet: an optical scene
\* of the first tick, a later radar scene, both or neither, so that the latest
\* scene date and the sensor change from one call to the next
WorkerCatalogs ==
    {{}, {S2Scene(1, 59, PlainNdvi)}}
    \X {{}, {S1Scene(MaxTime, "IW", {"VV", "VH"}, PlainVh)}}

\* run_growth_analysis_by_plot(plot_data=plot, start_date="2025-01-01",
\* end_date=str(date.today())): every way the call can end
Analyses ==
    [p \in {pl \in PlotInputs : ValidPlot(pl)} |->
        UNION { { run_growth_analysis_by_plot(p, 1, MaxTime + 1, c[1], c[2],
                                              first2, first1, FALSE, fail_at) :
                    first2 \in First(S2Collection(c[1], 1, MaxTime + 1)),
                    first1 \in First(S1Collection(c[2], 1, MaxTime + 1)),
                    fail_at \in {0, 1} } : c \in WorkerCatalogs }]

Results(p) == {a.result[1] : a \in {x \in Analyses[p] : x.outcome = "ok"}}

\* the "skip if exists" query on analysis_results
Cached_other_type(plot_id, analysis_date) ==
    {r \in analysis_results :
        /\ r.plot_id = plot_id
        /\ r.analysis_type = "ndvi"
        /\ r.analysis_date = analysis_date}

Cached(plot_id, analysis_date) ==
    {r \in analysis_results :
        /\ r.plot_id = plot_id
        /\ r.analysis_type = "growth"
        /\ r.analysis_date = analysis_date}

\* insert(...).execute(): the store numbers the new row
NewId(table) == Cardinality(table) + 1

SatRow(plot_id, result) ==
    [id |-> NewId(satellite_images), plot_id |-> plot_id,
     satellite |-> result.sensor, satellite_date |-> result.analysis_date]

ResultRow(plot_id, sat_id, result) ==
    [id |-> NewId(analysis_results), plot_id |-> plot_id,
     satellite_image_id |-> sat_id, analysis_type |-> "growth",
     analysis_date |-> result.analysis_date, sensor_used |-> result.sensor,
     tile_url |-> result.tile_url]

----------------------------------------------------------------------------
(* daily_worker.py: run() *)

InLoop == pc = "loop" /\ plots # <<>>

\* the plot of this iteration
plot == Head(plots)

Continue(ev) ==
    /\ plots' = Tail(plots)
    /\ event' = ev
    /\ UNCHANGED <<pc, runs>>

\* an exception leaves run(): the plots after this one stay unvisited
Abort(ev) ==
    /\ pc' = "idle"
    /\ plots' = Tail(plots)
    /\ event' = ev
    /\ UNCHANGED runs

Fetch ==
    /\ pc = "idle" /\ runs < MaxRuns
    /\ plots' \in PlotLists
    /\ pc' = "loop"
    /\ runs' = runs + 1
    /\ event' = "fetched"
    /\ UNCHANGED <<analysis_results, satellite_images>>
    /\ UNCHANGED growth_vars

\* raise_for_status() raises, or the body is not a list
FetchFails ==
    /\ pc = "idle" /\ runs < MaxRuns
    /\ runs' = runs + 1
    /\ event' = "fetch_failed"
    /\ plots' = <<>>
    /\ UNCHANGED <<pc, analysis_results, satellite_images>>
    /\ UNCHANGED growth_vars

SkipInvalid ==
    /\ InLoop
    /\ ~ValidPlot(plot)
    /\ Continue("skipped")
    /\ UNCHANGED <<analysis_results, satellite_images>>
    /\ UNCHANGED growth_vars

LookupFails ==
    /\ InLoop
    /\ ValidPlot(plot)
    /\ Abort("lookup_failed")
    /\ UNCHANGED <<analysis_results, satellite_images>>
    /\ UNCHANGED growth_vars

PlotNotFound ==
    /\ InLoop
    /\ ValidPlot(plot)
    /\ DbPlot(plot.plot_name) = {}
    /\ Continue("not_found")
    /\ UNCHANGED <<analysis_results, satellite_images>>
    /\ UNCHANGED growth_vars

\* the plot is valid and has a row in "plots"
Found == InLoop /\ ValidPlot(plot) /\ DbPlot(plot.plot_name) # {}

AnalysisFails ==
    /\ Found
    /\ \E a \in Analyses[plot] : a.outcome # "ok"
    /\ Continue("gee_failed")
    /\ UNCHANGED <<analysis_results, satellite_images>>
    /\ UNCHANGED growth_vars

CachedCheckFails ==
    /\ Found
    /\ Results(plot) # {}
    /\ Abort("cached_check_failed")
    /\ UNCHANGED <<analysis_results, satellite_images>>
    /\ UNCHANGED growth_vars

AlreadyCached ==
    /\ Found
    /\ \E db \in DbPlot(plot.plot_name), result \in Results(plot) :
          Cached(db.id, result.analysis_date) # {}
    /\ Continue("cached")
    /\ UNCHANGED <<analysis_results, satellite_images>>
    /\ UNCHANGED growth_vars

SatInsertFails ==
    /\ Found
    /\ \E db \in DbPlot(plot.plot_name), result \in Results(plot) :
          Cached(db.id, result.analysis_date) = {}
    /\ Abort("sat_insert_failed")
    /\ UNCHANGED <<analysis_results, satellite_images>>
    /\ UNCHANGED growth_vars

\* the satellite_images row is in the store when the second insert raises
ResultInsertFails ==
    /\ Found
    /\ \E db \in DbPlot(plot.plot_name), result \in Results(plot) :
          /\ Cached(db.id, result.analysis_date) = {}
          /\ satellite_images' = satellite_images \cup {SatRow(db.id, result)}
    /\ Abort("result_insert_failed")
    /\ UNCHANGED analysis_results
    /\ UNCHANGED growth_vars

Stored ==
    /\ Found
    /\ \E db \in DbPlot(plot.plot_name), result \in Results(plot) :
          /\ Cached(db.id, result.analysis_date) = {}
          /\ LET sat == SatRow(db.id, result) IN
             /\ satellite_images' = satellite_images \cup {sat}
             /\ analysis_results' =
                   analysis_results \cup {ResultRow(db.id, sat.id, result)}
    /\ Continue("stored")
    /\ UNCHANGED growth_vars

RunEnds ==
    /\ pc = "loop" /\ plots = <<>>
    /\ pc' = "idle"
    /\ event' = "finished"
    /\ UNCHANGED <<plots, runs, analysis_results, satellite_images>>
    /\ UNCHANGED growth_vars

Init ==
    /\ WorkerInit
    /\ plot_data = NoneValue
    /\ start_date = 1
    /\ end_date = MaxTime + 1
    /\ s2_catalog = {}
    /\ s1_catalog = {}
    /\ ret = <<>>

Next ==
    \/ Fetch
    \/ FetchFails
    \/ SkipInvalid
    \/ LookupFails
    \/ PlotNotFound
    \/ AnalysisFails
    \/ CachedCheckFails
    \/ AlreadyCached
    \/ SatInsertFails
    \/ ResultInsertFails
    \/ Stored
    \/ RunEnds

Spec == Init /\ [][Next]_vars

----------------------------------------------------------------------------
(* Properties of run(), checked under Spec *)

SameKey(a, b) ==
    /\ a.plot_id = b.plot_id
    /\ a.analysis_type = b.analysis_type
    /\ a.analysis_date = b.analysis_date

AtMostOneRowPerKey ==
    \A a, b \in analysis_results : SameKey(a, b) => a = b

\* C6: in every state reached by successive worker runs analysis_results holds
\* at most one row per (plot_id, analysis_type, analysis_date), and no step
\* inserts a row, into either table, for a key that analysis_results already holds.
C6_IdempotentStore ==
    /\ []AtMostOneRowPerKey
    /\ [][ /\ \A n \in analysis_results' \ analysis_results :
                 \A o \in analysis_results : ~SameKey(n, o)
           /\ \A n \in satellite_images' \ satellite_images :
                 \A o \in analysis_results :
                     ~(o.plot_id = n.plot_id /\ o.analysis_date = n.satellite_date)
         ]_vars

C6_Witness ==
    /\ runs = 2
    /\ event = "cached"
    /\ Cardinality(analysis_results) = 2
    /\ \E a, b \in analysis_results :
          a.plot_id = b.plot_id /\ a.analysis_date # b.analysis_date

\* C7: when run() has ended, however it ended, every plot of the fetched list
\* has been visited by the loop.
C7_EveryPlotVisited ==
    pc = "idle" => plots = <<>>

\* the part of C7 the code keeps: a failed analysis call does not end the run
C7_AnalysisFailureIsolated ==
    event = "gee_failed" => pc = "loop"

C10_ResultsReferenceImages ==
    \A a \in analysis_results :
        \E s \in satellite_images :
            /\ s.id = a.satellite_image_id
            /\ s.plot_id = a.plot_id
            /\ s.satellite_date = a.analysis_date
            /\ s.satellite = a.sensor_used

====
